---- MODULE Spec2Model ----
(***************************************************************************)
(* Model of the social-network console client                              *)
(* (Client/Python/social_network_client.py): the SocialNetworkClient       *)
(* object, its thirteen request operations, the request/reply exchange of  *)
(* _send_request over one ZeroMQ REQ socket, and the session attribute     *)
(* current_user.  The balancer and the services behind it are external:    *)
(* a reply is any text drawn from ResponseTexts.                           *)
(***************************************************************************)
EXTENDS Integers, FiniteSets, Sequences, TLC

VARIABLES
    current_user,   \* self.current_user: None or a str
    pc,             \* per caller: "idle", or "recv" while blocked in recv_string
    call,           \* per caller: the operation in progress (op, args, request)
    inflight,       \* requests handed to the socket whose reply was not received
    last,           \* the most recently finished step, as its caller observed it
    closed,         \* close() was called on the client
    shell,          \* main's position: "none" (no shell), "menu", "waiting", "exited"
    choice,         \* the menu choice main read last, with the session it was read in
    display         \* the last call of a display_* function: its argument and output

vars == <<current_user, pc, call, inflight, last, closed, shell, choice, display>>

\* the client's operations leave the shell and the terminal alone
NoShell == UNCHANGED <<closed, shell, choice, display>>

(***************************************************************************)
(* Bounds and program constants.                                           *)
(***************************************************************************)
MaxMessageId == 1

DefaultLimit == 10

Callers == {1, 2}

(***************************************************************************)
(* Python values.                                                          *)
(***************************************************************************)
PyNone == [t |-> "NoneType"]

PyStr(s) == [t |-> "str", s |-> s]

PyInt(n) == [t |-> "int", n |-> n]

PyBool(b) == [t |-> "bool", b |-> b]

PyList(items) == [t |-> "list", items |-> items]

\* a dict is a set of <<key, value>> pairs with distinct keys
PyDict(d) == [t |-> "dict", d |-> d]

\* Python's truth value testing, as used by `not x`, `x or y` and `if x`
Truthy(v) ==
    CASE v.t = "NoneType" -> FALSE
      [] v.t = "str"      -> v.s # ""
      [] v.t = "int"      -> v.n # 0
      [] v.t = "bool"     -> v.b
      [] v.t = "list"     -> Len(v.items) > 0
      [] v.t = "dict"     -> v.d # {}

\* x or y
PyOr(x, y) == IF Truthy(x) THEN x ELSE y

Keys(d) == {p[1] : p \in d.d}

\* dict.get(key, default)
Get(d, key, default) ==
    IF key \in Keys(d) THEN (CHOOSE p \in d.d : p[1] = key)[2] ELSE default

(***************************************************************************)
(* The wire format.  json.dumps turns a request dict into a JSON object:   *)
(* None becomes null, a str a string, an int a number, a bool true/false.  *)
(***************************************************************************)
JsonValue(v) ==
    CASE v.t = "NoneType" -> [j |-> "null"]
      [] v.t = "str"      -> [j |-> "string", s |-> v.s]
      [] v.t = "int"      -> [j |-> "number", n |-> v.n]
      [] v.t = "bool"     -> [j |-> IF v.b THEN "true" ELSE "false"]

json_dumps(request) == {<<p[1], JsonValue(p[2])>> : p \in request.d}

NoWire == {}

\* Reply texts the server side may put on the socket.
RecordTexts ==
    { "{\"success\": true}",
      "{\"success\": false, \"error\": \"denied\"}",
      "{\"success\": false}",
      "{\"success\": false, \"error\": \"Voce precisa fazer login primeiro\"}",
      "{}",
      "{\"success\": true, \"replication_complete\": false}",
      "{\"success\": true, \"replication_complete\": true}" }

MalformedTexts == { "{\"success\": tr", "oops" }

NonRecordTexts == { "\"ok\"", "42", "[]", "null" }

ResponseTexts == RecordTexts \cup MalformedTexts \cup NonRecordTexts

\* json.loads: the decoded value, or JSONDecodeError
json_loads(text) ==
    CASE text = "{\"success\": true}" ->
            [ok |-> TRUE, v |-> PyDict({<<"success", PyBool(TRUE)>>})]
      [] text = "{\"success\": false, \"error\": \"denied\"}" ->
            [ok |-> TRUE, v |-> PyDict({<<"success", PyBool(FALSE)>>,
                                       <<"error", PyStr("denied")>>})]
      [] text = "{\"success\": false}" ->
            [ok |-> TRUE, v |-> PyDict({<<"success", PyBool(FALSE)>>})]
      [] text = "{\"success\": false, \"error\": \"Voce precisa fazer login primeiro\"}" ->
            [ok |-> TRUE, v |-> PyDict({<<"success", PyBool(FALSE)>>,
                                       <<"error", PyStr("Voce precisa fazer login primeiro")>>})]
      [] text = "{}" ->
            [ok |-> TRUE, v |-> PyDict({})]
      [] text = "{\"success\": true, \"replication_complete\": false}" ->
            [ok |-> TRUE, v |-> PyDict({<<"success", PyBool(TRUE)>>,
                                       <<"replication_complete", PyBool(FALSE)>>})]
      [] text = "{\"success\": true, \"replication_complete\": true}" ->
            [ok |-> TRUE, v |-> PyDict({<<"success", PyBool(TRUE)>>,
                                       <<"replication_complete", PyBool(TRUE)>>})]
      [] text = "\"ok\"" -> [ok |-> TRUE, v |-> PyStr("ok")]
      [] text = "42"     -> [ok |-> TRUE, v |-> PyInt(42)]
      [] text = "[]"     -> [ok |-> TRUE, v |-> PyList(<<>>)]
      [] text = "null"   -> [ok |-> TRUE, v |-> PyNone]
      [] OTHER           -> [ok |-> FALSE]

(***************************************************************************)
(* Results built by the client itself.                                     *)
(***************************************************************************)
LoginRequired ==
    PyDict({<<"success", PyBool(FALSE)>>,
            <<"error", PyStr("Voce precisa fazer login primeiro")>>})

DecodeError ==
    PyDict({<<"success", PyBool(FALSE)>>,
            <<"error", PyStr("Erro ao decodificar resposta do servidor")>>})

\* variant: the identity test left out of the operations
NotLoggedIn_unchecked == FALSE

\* the `if not self.current_user` test that opens the identity-requiring operations
NotLoggedIn == ~Truthy(current_user)

\* the `if not username and not self.current_user` test of the optional-target queries
NoTarget(username) == ~Truthy(username) /\ ~Truthy(current_user)

(***************************************************************************)
(* The request dict each operation builds.                                 *)
(***************************************************************************)
register_user_request(username, password) ==
    PyDict({<<"action", PyStr("USER_REGISTER")>>,
            <<"username", username>>, <<"password", password>>})

login_request(username, password) ==
    PyDict({<<"action", PyStr("USER_LOGIN")>>,
            <<"username", username>>, <<"password", password>>})

create_post_request(content) ==
    PyDict({<<"action", PyStr("CREATE_POST")>>,
            <<"username", current_user>>, <<"content", content>>})

get_user_posts_request(username) ==
    PyDict({<<"action", PyStr("GET_USER_POSTS")>>,
            <<"username", PyOr(username, current_user)>>})

get_feed_request(limit) ==
    PyDict({<<"action", PyStr("GET_FEED")>>,
            <<"username", current_user>>, <<"limit", limit>>})

follow_user_request(username_to_follow) ==
    PyDict({<<"action", PyStr("FOLLOW_USER")>>,
            <<"followerUsername", current_user>>,
            <<"followedUsername", username_to_follow>>})

\* variant: unfollow built by copying follow's request without renaming the action
unfollow_user_request_copied(username_to_unfollow) ==
    PyDict({<<"action", PyStr("FOLLOW_USER")>>,
            <<"followerUsername", current_user>>,
            <<"followedUsername", username_to_unfollow>>})

unfollow_user_request(username_to_unfollow) ==
    PyDict({<<"action", PyStr("UNFOLLOW_USER")>>,
            <<"followerUsername", current_user>>,
            <<"followedUsername", username_to_unfollow>>})

get_followers_request(username) ==
    PyDict({<<"action", PyStr("GET_FOLLOWERS")>>,
            <<"username", PyOr(username, current_user)>>})

get_following_request(username) ==
    PyDict({<<"action", PyStr("GET_FOLLOWING")>>,
            <<"username", PyOr(username, current_user)>>})

send_message_request(receiver_username, content) ==
    PyDict({<<"action", PyStr("SEND_MESSAGE")>>,
            <<"senderUsername", current_user>>,
            <<"receiverUsername", receiver_username>>,
            <<"content", content>>})

\* variant: the two participants of the conversation exchanged
get_conversation_request_swapped(other_username) ==
    PyDict({<<"action", PyStr("GET_CONVERSATION")>>,
            <<"username1", other_username>>, <<"username2", current_user>>})

get_conversation_request(other_username) ==
    PyDict({<<"action", PyStr("GET_CONVERSATION")>>,
            <<"username1", current_user>>, <<"username2", other_username>>})

get_unread_messages_request ==
    PyDict({<<"action", PyStr("GET_UNREAD_MESSAGES")>>,
            <<"username", current_user>>})

mark_message_as_read_request(message_id) ==
    PyDict({<<"action", PyStr("MARK_AS_READ")>>,
            <<"messageId", message_id>>, <<"username", current_user>>})

(***************************************************************************)
(* The REQ socket.  A REQ socket alternates send and receive: a send while *)
(* a reply is awaited fails (EFSM).  The socket is not thread-safe: a send *)
(* issued while another caller is blocked in recv_string is unsynchronised *)
(* and may either fail or put the second request on the connection.  A     *)
(* send may also fail at the channel level.                                *)
(***************************************************************************)
SendOutcomes(c) ==
    IF inflight = 0 \/ (\E d \in Callers \ {c} : pc[d] = "recv")
    THEN {"sent", "error"}
    ELSE {"error"}

NoCall == [op |-> "none"]

Finished(c, op, args, pre, wire, sends, recvs, outcome, ret, exc, reply, slept) ==
    [caller |-> c, op |-> op, args |-> args, pre |-> pre, wire |-> wire,
     sends |-> sends, recvs |-> recvs, outcome |-> outcome, ret |-> ret,
     exc |-> exc, reply |-> reply, slept |-> slept]

\* an operation returns a locally built result without touching the socket
ReturnLocal(c, op, args, ret) ==
    /\ last' = Finished(c, op, args, current_user, NoWire, 0, 0,
                        "return", ret, "", "", FALSE)
    /\ UNCHANGED <<current_user, pc, call, inflight>>

\* variant: the request is sent and the method returns without receiving
send_request_no_recv(c, op, args, request) ==
    /\ last' = Finished(c, op, args, current_user, json_dumps(request), 1, 0,
                        "return", PyNone, "", "", FALSE)
    /\ inflight' = inflight + 1
    /\ UNCHANGED <<current_user, pc, call>>

\* _send_request up to the blocking receive: json.dumps, send_string
send_request(c, op, args, request) ==
    \E o \in SendOutcomes(c) :
        IF o = "sent"
        THEN /\ pc' = [pc EXCEPT ![c] = "recv"]
             /\ call' = [call EXCEPT ![c] =
                    [op |-> op, args |-> args, pre |-> current_user,
                     request |-> request, wire |-> json_dumps(request)]]
             /\ inflight' = inflight + 1
             /\ UNCHANGED <<current_user, last>>
        ELSE /\ last' = Finished(c, op, args, current_user, NoWire, 1, 0,
                                 "raise", PyNone, "ZMQError", "", FALSE)
             /\ UNCHANGED <<current_user, pc, call, inflight>>

\* variant: a failure reported by the server is replaced by the client's own
decode_response_rewrites_failures(text) ==
    IF json_loads(text).ok /\ json_loads(text).v.t = "dict"
       /\ ~Truthy(Get(json_loads(text).v, "success", PyBool(FALSE)))
    THEN DecodeError
    ELSE IF json_loads(text).ok THEN json_loads(text).v ELSE DecodeError

\* _send_request after recv_string returned `text`: json.loads, or the
\* decode-error dict on JSONDecodeError
decode_response(text) ==
    IF json_loads(text).ok THEN json_loads(text).v ELSE DecodeError

(***************************************************************************)
(* The operations.  Each is the method up to its return or, when it sends, *)
(* up to the point where the caller blocks in recv_string.                 *)
(***************************************************************************)
register_user(c, username, password) ==
    /\ pc[c] = "idle"
    /\ send_request(c, "register_user",
                    [username |-> username, password |-> password],
                    register_user_request(username, password))

login(c, username, password) ==
    /\ pc[c] = "idle"
    /\ send_request(c, "login",
                    [username |-> username, password |-> password],
                    login_request(username, password))

create_post(c, content) ==
    /\ pc[c] = "idle"
    /\ IF NotLoggedIn
       THEN ReturnLocal(c, "create_post", [content |-> content], LoginRequired)
       ELSE send_request(c, "create_post", [content |-> content],
                         create_post_request(content))

get_user_posts(c, username) ==
    /\ pc[c] = "idle"
    /\ IF NoTarget(username)
       THEN ReturnLocal(c, "get_user_posts", [username |-> username], LoginRequired)
       ELSE send_request(c, "get_user_posts", [username |-> username],
                         get_user_posts_request(username))

get_feed(c, limit) ==
    /\ pc[c] = "idle"
    /\ IF NotLoggedIn
       THEN ReturnLocal(c, "get_feed", [limit |-> limit], LoginRequired)
       ELSE send_request(c, "get_feed", [limit |-> limit], get_feed_request(limit))

follow_user(c, username_to_follow) ==
    /\ pc[c] = "idle"
    /\ IF NotLoggedIn
       THEN ReturnLocal(c, "follow_user", [username |-> username_to_follow],
                        LoginRequired)
       ELSE send_request(c, "follow_user", [username |-> username_to_follow],
                         follow_user_request(username_to_follow))

unfollow_user(c, username_to_unfollow) ==
    /\ pc[c] = "idle"
    /\ IF NotLoggedIn
       THEN ReturnLocal(c, "unfollow_user", [username |-> username_to_unfollow],
                        LoginRequired)
       ELSE send_request(c, "unfollow_user", [username |-> username_to_unfollow],
                         unfollow_user_request(username_to_unfollow))

get_followers(c, username) ==
    /\ pc[c] = "idle"
    /\ IF NoTarget(username)
       THEN ReturnLocal(c, "get_followers", [username |-> username], LoginRequired)
       ELSE send_request(c, "get_followers", [username |-> username],
                         get_followers_request(username))

get_following(c, username) ==
    /\ pc[c] = "idle"
    /\ IF NoTarget(username)
       THEN ReturnLocal(c, "get_following", [username |-> username], LoginRequired)
       ELSE send_request(c, "get_following", [username |-> username],
                         get_following_request(username))

send_message(c, receiver_username, content) ==
    /\ pc[c] = "idle"
    /\ IF NotLoggedIn
       THEN ReturnLocal(c, "send_message",
                        [username |-> receiver_username, content |-> content],
                        LoginRequired)
       ELSE send_request(c, "send_message",
                         [username |-> receiver_username, content |-> content],
                         send_message_request(receiver_username, content))

get_conversation(c, other_username) ==
    /\ pc[c] = "idle"
    /\ IF NotLoggedIn
       THEN ReturnLocal(c, "get_conversation", [username |-> other_username],
                        LoginRequired)
       ELSE send_request(c, "get_conversation", [username |-> other_username],
                         get_conversation_request(other_username))

get_unread_messages(c) ==
    /\ pc[c] = "idle"
    /\ IF NotLoggedIn
       THEN ReturnLocal(c, "get_unread_messages", <<>>, LoginRequired)
       ELSE send_request(c, "get_unread_messages", <<>>,
                         get_unread_messages_request)

mark_message_as_read(c, message_id) ==
    /\ pc[c] = "idle"
    /\ IF NotLoggedIn
       THEN ReturnLocal(c, "mark_message_as_read", [message_id |-> message_id],
                        LoginRequired)
       ELSE send_request(c, "mark_message_as_read", [message_id |-> message_id],
                         mark_message_as_read_request(message_id))

\* variant: the farewell is printed but the session attribute is kept
logout_keeps_session == current_user

\* client.current_user = None
logout_session == PyNone

\* "Sair da conta": the shell clears the session attribute, no request is made
logout(c) ==
    /\ pc[c] = "idle"
    /\ Truthy(current_user)
    /\ current_user' = logout_session
    /\ last' = Finished(c, "logout", <<>>, current_user, NoWire, 0, 0,
                        "return", PyNone, "", "", FALSE)
    /\ UNCHANGED <<pc, call, inflight>>

(***************************************************************************)
(* The second half of an exchange: recv_string returns a reply text (or    *)
(* fails), _send_request decodes it and the operation finishes.            *)
(***************************************************************************)
\* the caller's view when its blocked operation ends
Finish(c, outcome, ret, exc, reply, slept) ==
    /\ last' = Finished(c, call[c].op, call[c].args, call[c].pre, call[c].wire,
                        1, 1, outcome, ret, exc, reply, slept)
    /\ pc' = [pc EXCEPT ![c] = "idle"]
    /\ call' = [call EXCEPT ![c] = NoCall]

\* recv_string raises: nothing in _send_request catches it, the reply stays owed
recv_fail(c) ==
    /\ pc[c] = "recv"
    /\ Finish(c, "raise", PyNone, "ZMQError", "", FALSE)
    /\ UNCHANGED <<current_user, inflight>>

\* variant: the session is set whatever the reply says
login_session_always(response, username) == username

\* login's `if response.get("success", False): self.current_user = username`
login_session(response, username) ==
    IF Truthy(Get(response, "success", PyBool(FALSE))) THEN username ELSE current_user

login_reply(c, text) ==
    /\ pc[c] = "recv"
    /\ call[c].op = "login"
    /\ inflight' = inflight - 1
    /\ LET response == decode_response(text) IN
         IF response.t # "dict"
         THEN /\ Finish(c, "raise", PyNone, "AttributeError", text, FALSE)
              /\ UNCHANGED current_user
         ELSE /\ current_user' = login_session(response, call[c].args.username)
              /\ Finish(c, "return", response, "", text, FALSE)

\* register_user's wait: success and replication_complete is False
register_sleeps(response) ==
    /\ Truthy(Get(response, "success", PyNone))
    /\ Get(response, "replication_complete", PyNone) = PyBool(FALSE)

\* variant: a successful registration also logs the user in
register_session_autologin(response, username) ==
    IF Truthy(Get(response, "success", PyNone)) THEN username ELSE current_user

\* register_user leaves the session attribute alone
register_session(response, username) == current_user

register_user_reply(c, text) ==
    /\ pc[c] = "recv"
    /\ call[c].op = "register_user"
    /\ inflight' = inflight - 1
    /\ LET response == decode_response(text) IN
         IF response.t # "dict"
         THEN /\ Finish(c, "raise", PyNone, "AttributeError", text, FALSE)
              /\ UNCHANGED current_user
         ELSE /\ current_user' = register_session(response, call[c].args.username)
              /\ Finish(c, "return", response, "", text, register_sleeps(response))

\* every other operation returns what _send_request returned
reply(c, text) ==
    /\ pc[c] = "recv"
    /\ call[c].op \notin {"login", "register_user"}
    /\ inflight' = inflight - 1
    /\ Finish(c, "return", decode_response(text), "", text, FALSE)
    /\ UNCHANGED current_user

(***************************************************************************)
(* Argument values.                                                        *)
(***************************************************************************)
Usernames == {PyStr(""), PyStr("alice"), PyStr("bob")}

Passwords == {PyStr(""), PyStr("pw")}

Contents == {PyStr(""), PyStr("hi")}

OptionalUsernames == {PyNone} \cup Usernames

Limits == {PyInt(0), PyInt(DefaultLimit)}

MessageIds == {PyInt(n) : n \in 0..MaxMessageId}

NoChoice == [choice |-> "", session |-> PyNone]

NoDisplay == [fn |-> "none"]

Init ==
    /\ current_user = PyNone
    /\ pc = [c \in Callers |-> "idle"]
    /\ call = [c \in Callers |-> NoCall]
    /\ inflight = 0
    /\ last = NoCall
    /\ closed = FALSE
    /\ shell = "none"
    /\ choice = NoChoice
    /\ display = NoDisplay

\* single-threaded use: one caller, every argument value, every reply
Next ==
    \E c \in {1} :
        \/ \E u \in Usernames, p \in Passwords : register_user(c, u, p) /\ NoShell
        \/ \E u \in Usernames, p \in Passwords : login(c, u, p) /\ NoShell
        \/ \E x \in Contents : create_post(c, x) /\ NoShell
        \/ \E u \in OptionalUsernames : get_user_posts(c, u) /\ NoShell
        \/ \E n \in Limits : get_feed(c, n) /\ NoShell
        \/ \E u \in Usernames : follow_user(c, u) /\ NoShell
        \/ \E u \in Usernames : unfollow_user(c, u) /\ NoShell
        \/ \E u \in OptionalUsernames : get_followers(c, u) /\ NoShell
        \/ \E u \in OptionalUsernames : get_following(c, u) /\ NoShell
        \/ \E u \in Usernames, x \in Contents : send_message(c, u, x) /\ NoShell
        \/ \E u \in Usernames : get_conversation(c, u) /\ NoShell
        \/ get_unread_messages(c) /\ NoShell
        \/ \E m \in MessageIds : mark_message_as_read(c, m) /\ NoShell
        \/ logout(c) /\ NoShell
        \/ recv_fail(c) /\ NoShell
        \/ \E t \in ResponseTexts : login_reply(c, t) /\ NoShell
        \/ \E t \in ResponseTexts : register_user_reply(c, t) /\ NoShell
        \/ \E t \in ResponseTexts : reply(c, t) /\ NoShell

Spec == Init /\ [][Next]_vars

(***************************************************************************)
(* Two callers sharing one client instance (one socket, one session), each *)
(* invoking operations with one representative argument value.             *)
(***************************************************************************)
ConcTexts == { "{\"success\": true}", "{\"success\": false}", "oops" }

NextConc ==
    \E c \in Callers :
        \/ register_user(c, PyStr("alice"), PyStr("pw")) /\ NoShell
        \/ login(c, PyStr("alice"), PyStr("pw")) /\ NoShell
        \/ create_post(c, PyStr("hi")) /\ NoShell
        \/ get_user_posts(c, PyNone) /\ NoShell
        \/ get_feed(c, PyInt(DefaultLimit)) /\ NoShell
        \/ follow_user(c, PyStr("bob")) /\ NoShell
        \/ unfollow_user(c, PyStr("bob")) /\ NoShell
        \/ get_followers(c, PyNone) /\ NoShell
        \/ get_following(c, PyNone) /\ NoShell
        \/ send_message(c, PyStr("bob"), PyStr("hi")) /\ NoShell
        \/ get_conversation(c, PyStr("bob")) /\ NoShell
        \/ get_unread_messages(c) /\ NoShell
        \/ mark_message_as_read(c, PyInt(MaxMessageId)) /\ NoShell
        \/ logout(c) /\ NoShell
        \/ \E t \in ConcTexts : login_reply(c, t) /\ NoShell
        \/ \E t \in ConcTexts : register_user_reply(c, t) /\ NoShell
        \/ \E t \in ConcTexts : reply(c, t) /\ NoShell

SpecConc == Init /\ [][NextConc]_vars

(***************************************************************************)
(* The response formatters display_posts, display_messages and             *)
(* display_users.  A printed line is its format text with the values put   *)
(* in its placeholders.                                                    *)
(***************************************************************************)
MaxItems == 3

Line(text, args) == [text |-> text, args |-> args]

\* count == 0
IsZero(v) == (v.t = "int" /\ v.n = 0) \/ (v.t = "bool" /\ ~v.b)

\* sequence of the lines printed for each element of items, in order
RECURSIVE Concat(_)
Concat(seqs) == IF seqs = <<>> THEN <<>> ELSE Head(seqs) \o Concat(Tail(seqs))

\* print(f"Erro: {response.get('error')}")
error_line(response) == Line("Erro: {}", <<Get(response, "error", PyNone)>>)

post_lines(post, i) ==
    << Line("@{} - {}", <<Get(post, "username", PyNone), Get(post, "createdAt", PyNone)>>),
       Line("{}", <<Get(post, "content", PyNone)>>),
       Line("----------------------------------------", <<>>) >>

\* the collection is printed only when the count field is not 0
posts_empty(posts, count) == IsZero(count)

display_posts(posts_response) ==
    IF ~Truthy(Get(posts_response, "success", PyNone))
    THEN <<error_line(posts_response)>>
    ELSE LET posts == Get(posts_response, "posts", PyList(<<>>))
             count == Get(posts_response, "count", PyInt(0))
         IN  IF posts_empty(posts, count)
             THEN <<Line("Nenhuma publicacao encontrada.", <<>>)>>
             ELSE <<Line("=== {} Publicacoes ===", <<count>>)>>
                  \o Concat([i \in 1..Len(posts.items) |-> post_lines(posts.items[i], i)])

message_lines(msg, i) ==
    << Line("{} De: @{} - {}",
            << PyStr(IF Truthy(Get(msg, "read", PyBool(FALSE)))
                     THEN "[Lida]" ELSE "[Nao lida]"),
               Get(msg, "senderUsername", PyNone), Get(msg, "sentAt", PyNone) >>),
       Line("{}", <<Get(msg, "content", PyNone)>>),
       Line("----------------------------------------", <<>>) >>

display_messages(messages_response) ==
    IF ~Truthy(Get(messages_response, "success", PyNone))
    THEN <<error_line(messages_response)>>
    ELSE LET messages == Get(messages_response, "messages", PyList(<<>>))
             count == Get(messages_response, "count", PyInt(0))
         IN  IF IsZero(count)
             THEN <<Line("Nenhuma mensagem encontrada.", <<>>)>>
             ELSE <<Line("=== {} Mensagens ===", <<count>>)>>
                  \o Concat([i \in 1..Len(messages.items) |-> message_lines(messages.items[i], i)])

\* str.lower() on the relation types in use
lower(relation_type) ==
    CASE relation_type = "Seguidores" -> "seguidores"
      [] relation_type = "followers"  -> "followers"
      [] relation_type = "following"  -> "following"

user_lines(username, i) == << Line("{}. @{}", <<PyInt(i), username>>) >>

display_users(users_response, relation_type) ==
    IF ~Truthy(Get(users_response, "success", PyNone))
    THEN <<error_line(users_response)>>
    ELSE LET users == Get(users_response, lower(relation_type), PyList(<<>>))
             count == Get(users_response, "count", PyInt(0))
         IN  IF IsZero(count)
             THEN <<Line("Nenhum {} encontrado.", <<PyStr(lower(relation_type))>>)>>
             ELSE <<Line("=== {} {} ===", <<count, PyStr(relation_type)>>)>>
                  \o Concat([i \in 1..Len(users.items) |-> user_lines(users.items[i], i)])

(***************************************************************************)
(* Responses handed to the formatters: any combination of a success flag,  *)
(* an error text, a count and a collection of 0..MaxItems elements, each   *)
(* present or absent.                                                      *)
(***************************************************************************)
Names == <<"alice", "bob", "carol", "dave", "erin">>

Post(i) ==
    PyDict({<<"postId", PyInt(i)>>, <<"username", PyStr(Names[i])>>,
            <<"content", PyStr("hi")>>, <<"createdAt", PyInt(i)>>})

Message(i) ==
    PyDict({<<"id", PyInt(i)>>, <<"senderUsername", PyStr(Names[i])>>,
            <<"receiverUsername", PyStr("zoe")>>, <<"content", PyStr("hi")>>,
            <<"sentAt", PyInt(i)>>, <<"read", PyBool(i = 1)>>})

Element(key, i) ==
    CASE key = "posts"    -> Post(i)
      [] key = "messages" -> Message(i)
      [] OTHER            -> PyStr(Names[i])

CollectionKeys == {"posts", "messages", "followers", "seguidores"}

Optional(key, values) == {{}} \cup {{<<key, v>>} : v \in values}

DisplayResponses ==
    { PyDict(a \cup b \cup c \cup d) :
        a \in Optional("success", {PyBool(TRUE), PyBool(FALSE)}),
        b \in Optional("error", {PyStr("denied")}),
        c \in Optional("count", {PyInt(n) : n \in 0..MaxItems}),
        d \in UNION { Optional(key, {PyList([i \in 1..n |-> Element(key, i)]) :
                                        n \in 0..MaxItems}) :
                      key \in CollectionKeys } }

RelationTypes == {"followers", "Seguidores"}

InitDisplay ==
    /\ current_user = PyNone
    /\ pc = [c \in Callers |-> "idle"]
    /\ call = [c \in Callers |-> NoCall]
    /\ inflight = 0
    /\ last = NoCall
    /\ closed = FALSE
    /\ shell = "none"
    /\ choice = NoChoice
    /\ display \in {[fn |-> "none", response |-> r] : r \in DisplayResponses}

Shown(fn, key, out) ==
    /\ display' = [fn |-> fn, key |-> key, response |-> display.response, out |-> out]
    /\ UNCHANGED <<current_user, pc, call, inflight, last, closed, shell, choice>>

NextDisplay ==
    \/ Shown("display_posts", "posts", display_posts(display.response))
    \/ Shown("display_messages", "messages", display_messages(display.response))
    \/ \E r \in RelationTypes :
          Shown("display_users", lower(r), display_users(display.response, r))

SpecDisplay == InitDisplay /\ [][NextDisplay]_vars

(***************************************************************************)
(* The interactive shell, main: one loop that reads a menu choice, asks    *)
(* for the inputs of the chosen action, calls the client and goes back to  *)
(* the menu.  The loop runs inside try/finally; the finally clause calls   *)
(* client.close().  The shell is caller 1 of the client.                   *)
(***************************************************************************)
Choices == {"0", "1", "2", "3", "4", "5", "6", "7", "8", "9", "10", "11", "12",
            "13", "x"}

\* variant: the anonymous branch is taken whatever the session
anonymous_menu_always == TRUE

\* `if not client.current_user:` selects the branch of the anonymous menu
anonymous_menu == ~Truthy(current_user)

\* variant: close() placed after the loop instead of in a finally clause
finally_closes_after_loop(reason) == reason = "break"

\* finally: client.close() runs when the loop breaks and when it raises
finally_closes(reason) == TRUE

\* the loop is left, by `break` or by an exception
main_finally(reason) ==
    /\ shell' = "exited"
    /\ closed' = (closed \/ finally_closes(reason))

Read(ch) ==
    /\ shell = "menu"
    /\ choice' = [choice |-> ch, session |-> current_user]
    /\ UNCHANGED display

\* nothing is called: an input was empty (`continue`) or no branch matched
BackToMenu == UNCHANGED <<current_user, pc, call, inflight, last, closed, shell>>

\* a client method was called: it blocks in the receive, raises, or returns
AfterCall ==
    IF pc'[1] = "recv"
    THEN shell' = "waiting" /\ closed' = closed
    ELSE IF last'.outcome = "raise"
         THEN main_finally("exception")
         ELSE shell' = "menu" /\ closed' = closed

main_register(username, password) ==
    /\ Read("1")
    /\ anonymous_menu
    /\ IF ~Truthy(username) \/ ~Truthy(password)
       THEN BackToMenu
       ELSE register_user(1, username, password) /\ AfterCall

main_login(username, password) ==
    /\ Read("2")
    /\ anonymous_menu
    /\ IF ~Truthy(username) \/ ~Truthy(password)
       THEN BackToMenu
       ELSE login(1, username, password) /\ AfterCall

main_create_post(content) ==
    /\ Read("1")
    /\ ~anonymous_menu
    /\ IF ~Truthy(content)
       THEN BackToMenu
       ELSE create_post(1, content) /\ AfterCall

main_my_posts ==
    /\ Read("2")
    /\ ~anonymous_menu
    /\ get_user_posts(1, PyNone) /\ AfterCall

\* limit = int(limit) if limit else 10, and 10 when the text is no number
main_feed(limit) ==
    /\ Read("3")
    /\ ~anonymous_menu
    /\ get_feed(1, limit) /\ AfterCall

main_follow(username) ==
    /\ Read("4")
    /\ ~anonymous_menu
    /\ IF ~Truthy(username)
       THEN BackToMenu
       ELSE follow_user(1, username) /\ AfterCall

main_unfollow(username) ==
    /\ Read("5")
    /\ ~anonymous_menu
    /\ IF ~Truthy(username)
       THEN BackToMenu
       ELSE unfollow_user(1, username) /\ AfterCall

main_followers ==
    /\ Read("6")
    /\ ~anonymous_menu
    /\ get_followers(1, PyNone) /\ AfterCall

main_following ==
    /\ Read("7")
    /\ ~anonymous_menu
    /\ get_following(1, PyNone) /\ AfterCall

main_send_message(receiver, content) ==
    /\ Read("8")
    /\ ~anonymous_menu
    /\ IF ~Truthy(receiver) \/ ~Truthy(content)
       THEN BackToMenu
       ELSE send_message(1, receiver, content) /\ AfterCall

main_unread ==
    /\ Read("9")
    /\ ~anonymous_menu
    /\ get_unread_messages(1) /\ AfterCall

main_conversation(username) ==
    /\ Read("10")
    /\ ~anonymous_menu
    /\ IF ~Truthy(username)
       THEN BackToMenu
       ELSE get_conversation(1, username) /\ AfterCall

main_other_posts(username) ==
    /\ Read("11")
    /\ ~anonymous_menu
    /\ IF ~Truthy(username)
       THEN BackToMenu
       ELSE get_user_posts(1, username) /\ AfterCall

main_logout ==
    /\ Read("12")
    /\ ~anonymous_menu
    /\ logout(1)
    /\ UNCHANGED <<closed, shell>>

\* the choices the branch taken has an `if`/`elif` for, besides "0"
Dispatched ==
    IF anonymous_menu
    THEN {"1", "2"}
    ELSE {"1", "2", "3", "4", "5", "6", "7", "8", "9", "10", "11", "12"}

\* a choice no branch matches: the loop comes back to the menu
main_other(ch) ==
    /\ ch \notin Dispatched \cup {"0"}
    /\ Read(ch)
    /\ BackToMenu

\* "0": no branch matches, `break`, then the finally clause
main_exit ==
    /\ Read("0")
    /\ main_finally("break")
    /\ UNCHANGED <<current_user, pc, call, inflight, last>>

\* the blocked call ends: main reads response.get(...) or hands the response
\* to a display_* function, which raises AttributeError on a non-dict
AfterReply ==
    IF last'.outcome = "raise" \/ last'.ret.t # "dict"
    THEN main_finally("exception")
    ELSE shell' = "menu" /\ closed' = closed

main_reply(text) ==
    /\ shell = "waiting"
    /\ \/ login_reply(1, text)
       \/ register_user_reply(1, text)
       \/ reply(1, text)
    /\ AfterReply
    /\ UNCHANGED <<choice, display>>

main_recv_fail ==
    /\ shell = "waiting"
    /\ recv_fail(1)
    /\ AfterReply
    /\ UNCHANGED <<choice, display>>

\* usernames typed at a prompt
Typed == Usernames

InitShell ==
    /\ current_user = PyNone
    /\ pc = [c \in Callers |-> "idle"]
    /\ call = [c \in Callers |-> NoCall]
    /\ inflight = 0
    /\ last = NoCall
    /\ closed = FALSE
    /\ shell = "menu"
    /\ choice = NoChoice
    /\ display = NoDisplay

NextShell ==
    \/ \E u \in Typed, p \in Passwords : main_register(u, p)
    \/ \E u \in Typed, p \in Passwords : main_login(u, p)
    \/ \E x \in Contents : main_create_post(x)
    \/ main_my_posts
    \/ \E n \in Limits : main_feed(n)
    \/ \E u \in Typed : main_follow(u)
    \/ \E u \in Typed : main_unfollow(u)
    \/ main_followers
    \/ main_following
    \/ \E u \in Typed, x \in Contents : main_send_message(u, x)
    \/ main_unread
    \/ \E u \in Typed : main_conversation(u)
    \/ \E u \in Typed : main_other_posts(u)
    \/ main_logout
    \/ \E ch \in Choices : main_other(ch)
    \/ main_exit
    \/ \E t \in ResponseTexts : main_reply(t)
    \/ main_recv_fail

SpecShell == InitShell /\ [][NextShell]_vars

(***************************************************************************)
(* Vocabulary of the properties.                                           *)
(***************************************************************************)
IdentityOps ==
    {"create_post", "get_feed", "follow_user", "unfollow_user", "send_message",
     "get_conversation", "get_unread_messages", "mark_message_as_read"}

TargetOps == {"get_user_posts", "get_followers", "get_following"}

SuccessTexts ==
    { "{\"success\": true}",
      "{\"success\": true, \"replication_complete\": false}",
      "{\"success\": true, \"replication_complete\": true}" }

Anonymous(session) == session = PyNone

\* a result value that reports failure: a dict with success False and an error
FailureResult(ret) ==
    /\ ret.t = "dict"
    /\ <<"success", PyBool(FALSE)>> \in ret.d
    /\ "error" \in Keys(ret)

Field(wire, name) == (CHOOSE p \in wire : p[1] = name)[2]

FieldNames(wire) == {p[1] : p \in wire}

\* C1: an identity-requiring operation invoked while the session is Anonymous
\* returns a failure result and makes no send and no receive on the socket:
\* no such operation is ever blocked in an exchange, and when one finished
\* its caller got a failure dict with zero sends and zero receives.
C1_AnonymousRejectedLocally ==
    /\ \A c \in Callers :
          call[c].op \in IdentityOps => ~Anonymous(call[c].pre)
    /\ (last.op \in IdentityOps /\ Anonymous(last.pre)) =>
          /\ last.outcome = "return"
          /\ FailureResult(last.ret)
          /\ last.sends = 0
          /\ last.recvs = 0
          /\ last.wire = NoWire

C1_Witness ==
    /\ last.op = "send_message"
    /\ Anonymous(last.pre)
    /\ last.outcome = "return"
    /\ last.sends = 0

\* C2: after login(username, password) returns a record reply, the session is
\* exactly the username passed when the reply has success=true, and is the
\* session of before the call when the reply has success=false or no success
\* field, whether that was Anonymous or some user.
C2_LoginSetsSession ==
    (last.op = "login" /\ last.reply \in RecordTexts) =>
        /\ last.outcome = "return"
        /\ IF last.reply \in SuccessTexts
           THEN current_user = last.args.username
           ELSE current_user = last.pre

C2_Witness ==
    /\ last.op = "login"
    /\ last.reply = "{\"success\": false, \"error\": \"denied\"}"
    /\ last.pre = PyStr("alice")
    /\ last.args.username = PyStr("bob")
    /\ current_user = PyStr("alice")

\* C3: current_user changes only in a login whose reply is successful (to
\* the username passed) and in a logout (to None); every other step leaves it.
C3_OnlyLoginAndLogoutChangeSession ==
    [][current_user' # current_user =>
         \/ /\ last'.op = "login"
            /\ last'.outcome = "return"
            /\ last'.reply \in SuccessTexts
            /\ current_user' = last'.args.username
         \/ /\ last'.op = "logout"
            /\ current_user' = PyNone]_vars

C3_Witness ==
    /\ last.op = "register_user"
    /\ last.reply = "{\"success\": true, \"replication_complete\": false}"
    /\ last.outcome = "return"
    /\ last.slept
    /\ current_user = last.pre

\* the operation's own precondition test, on the caller's arguments and the
\* session it was invoked in
PassedPrecondition(l) ==
    /\ l.op \in IdentityOps => Truthy(l.pre)
    /\ l.op \in TargetOps => (Truthy(l.args.username) \/ Truthy(l.pre))

\* C4: an operation that passed its precondition and returned made exactly
\* one send and one receive, whatever the reply was; and any operation that
\* got a reply made exactly one send and one receive.
C4_OneRequestOneReply ==
    /\ (last.op \notin {"none", "logout"} /\ PassedPrecondition(last)
          /\ last.outcome = "return") =>
            /\ last.sends = 1
            /\ last.recvs = 1
            /\ last.wire # NoWire
            /\ last.reply \in ResponseTexts
    /\ (last.op # "none" /\ last.reply # "") =>
            (last.sends = 1 /\ last.recvs = 1)

C4_Witness ==
    /\ last.op = "register_user"
    /\ last.reply = "{\"success\": true, \"replication_complete\": false}"
    /\ last.outcome = "return"
    /\ last.sends = 1
    /\ last.recvs = 1
    /\ inflight = 0

\* C5: for a reply that is not a well-formed record (truncated, not JSON, or
\* JSON that is no record) every operation returns a failure result carrying
\* the decode-error message, raises nothing and leaves the session alone.
C5_MalformedReplyIsDecodeError ==
    (last.op # "none" /\ last.reply \in MalformedTexts \cup NonRecordTexts) =>
        /\ last.outcome = "return"
        /\ last.ret = DecodeError
        /\ current_user = last.pre

\* C6: get_user_posts, get_followers and get_following send the explicit
\* non-empty target as username in any session; with no target they send the
\* session's user when there is one, and are rejected without a send only
\* when there is no target and the session is Anonymous.
C6_OptionalTarget ==
    /\ \A c \in Callers : call[c].op \in TargetOps =>
          /\ Truthy(call[c].args.username) =>
                Field(call[c].wire, "username") = JsonValue(call[c].args.username)
          /\ call[c].args.username = PyNone =>
                /\ ~Anonymous(call[c].pre)
                /\ Field(call[c].wire, "username") = JsonValue(call[c].pre)
    /\ (last.op \in TargetOps /\ last.sends = 0) =>
          /\ FailureResult(last.ret)
          /\ ~Truthy(last.args.username)
          /\ Anonymous(last.pre)

\* C7: with two callers on one client, at most one request is in flight.
C7_AtMostOneInFlight == inflight <= 1

\* C8: a transport failure in send or receive comes back to the caller as a
\* failure result, not as an exception, and the session is unchanged.
C8_TransportFailureIsResult ==
    (last.op # "none" /\ last.exc = "ZMQError") =>
        /\ last.outcome = "return"
        /\ FailureResult(last.ret)
        /\ current_user = last.pre

NonEmptyJson(v) ==
    CASE v.j = "null"   -> FALSE
      [] v.j = "string" -> v.s # ""
      [] OTHER          -> TRUE

\* C9: no request is on the wire with a field that is absent (null) or empty.
C9_NoEmptyRequiredField ==
    \A c \in Callers : pc[c] = "recv" =>
        \A p \in call[c].wire : NonEmptyJson(p[2])

\* the action identifier and required fields of each operation, from the
\* specification's table
ActionTable ==
    [register_user |-> [action |-> "USER_REGISTER", fields |-> {"username", "password"}],
     login |-> [action |-> "USER_LOGIN", fields |-> {"username", "password"}],
     create_post |-> [action |-> "CREATE_POST", fields |-> {"username", "content"}],
     get_user_posts |-> [action |-> "GET_USER_POSTS", fields |-> {"username"}],
     get_feed |-> [action |-> "GET_FEED", fields |-> {"username", "limit"}],
     follow_user |-> [action |-> "FOLLOW_USER",
                      fields |-> {"followerUsername", "followedUsername"}],
     unfollow_user |-> [action |-> "UNFOLLOW_USER",
                        fields |-> {"followerUsername", "followedUsername"}],
     get_followers |-> [action |-> "GET_FOLLOWERS", fields |-> {"username"}],
     get_following |-> [action |-> "GET_FOLLOWING", fields |-> {"username"}],
     send_message |-> [action |-> "SEND_MESSAGE",
                       fields |-> {"senderUsername", "receiverUsername", "content"}],
     get_conversation |-> [action |-> "GET_CONVERSATION",
                           fields |-> {"username1", "username2"}],
     get_unread_messages |-> [action |-> "GET_UNREAD_MESSAGES", fields |-> {"username"}],
     mark_message_as_read |-> [action |-> "MARK_AS_READ",
                               fields |-> {"messageId", "username"}]]

MatchesTable(op, wire) ==
    /\ FieldNames(wire) = ActionTable[op].fields \cup {"action"}
    /\ Field(wire, "action") = [j |-> "string", s |-> ActionTable[op].action]

\* C10: every request on the wire carries the action identifier of its
\* operation and exactly that operation's field names, as in the table.
C10_RequestsMatchTable ==
    /\ \A c \in Callers : pc[c] = "recv" => MatchesTable(call[c].op, call[c].wire)
    /\ (last.op # "none" /\ last.wire # NoWire) => MatchesTable(last.op, last.wire)

C10_Witness ==
    /\ last.op = "unfollow_user"
    /\ last.wire # NoWire
    /\ pc[1] = "recv"
    /\ call[1].op = "mark_message_as_read"

\* C12: whenever main has left its loop - by the exit choice in either
\* session state or by an exception raised in a menu action - close() was
\* called on the client.
C12_ExitClosesConnection == shell = "exited" => closed

C12_Witness ==
    /\ shell = "exited"
    /\ closed
    /\ last.op = "create_post"
    /\ last.outcome = "raise"

\* C13: logout takes the session from a user to Anonymous with no send and
\* no receive; right after it an identity-requiring operation is rejected
\* without a send, and the session stays Anonymous until a login succeeds.
C13_LogoutEndsSession ==
    /\ [](last.op = "logout" =>
            /\ Truthy(last.pre)
            /\ Anonymous(current_user)
            /\ last.sends = 0 /\ last.recvs = 0 /\ last.wire = NoWire)
    /\ [][last.op = "logout" =>
            /\ \A c \in Callers : pc'[c] = "recv" => call'[c].op \notin IdentityOps
            /\ last'.op \in IdentityOps =>
                  (FailureResult(last'.ret) /\ last'.sends = 0)]_vars
    /\ [][(Anonymous(current_user) /\ ~Anonymous(current_user')) =>
            (last'.op = "login" /\ last'.reply \in SuccessTexts)]_vars

C13_Witness ==
    /\ last.op = "logout"
    /\ last.pre = PyStr("alice")
    /\ Anonymous(current_user)
    /\ inflight = 0

\* C14: no server reply with success=false makes an operation return the
\* value it returns when it is rejected locally for missing authentication.
C14_LocalFailureDistinct ==
    (last.op # "none" /\ last.reply # "") => last.ret # LoginRequired

\* C15: for a reply that is a well-formed record the operation returns
\* exactly the decoded record: same fields, same values.
C15_RecordReturnedVerbatim ==
    (last.op # "none" /\ last.reply \in RecordTexts) =>
        /\ last.outcome = "return"
        /\ last.ret = json_loads(last.reply).v

C15_Witness ==
    /\ last.op = "register_user"
    /\ last.reply = "{\"success\": false, \"error\": \"denied\"}"
    /\ last.outcome = "return"
    /\ Get(last.ret, "error", PyNone) = PyStr("denied")
    /\ Keys(last.ret) = {"success", "error"}

\* C16: while the session holds the username of a successful login (any
\* username, the empty one included), an identity-requiring operation passes
\* its precondition and reaches the socket.
C16_LoggedInPassesPrecondition ==
    (last.op \in IdentityOps /\ last.pre.t = "str") => last.sends = 1

\* C17: with one caller, sends and receives alternate: at most one request
\* is outstanding, exactly one while the caller is blocked in the receive,
\* and none between operations.
C17_SendReceiveAlternate ==
    /\ inflight \in {0, 1}
    /\ pc[1] = "recv" => inflight = 1
    /\ pc[1] = "idle" => inflight = 0

\* the menu of a session: exit always, register and login when anonymous,
\* the twelve content and social entries when authenticated
Offered(ch, session) ==
    \/ ch = "0"
    \/ Anonymous(session) /\ ch \in {"1", "2"}
    \/ ~Anonymous(session)
         /\ ch \in {"1", "2", "3", "4", "5", "6", "7", "8", "9", "10", "11", "12"}

\* C19: in the shell a register or login request is on the wire only if the
\* session was Anonymous, any other request only if it was Authenticated; a
\* request is only ever sent for a choice the menu offered; reading a choice
\* that is not offered sends nothing and keeps the session; the exit choice
\* leaves the loop from either state without sending.
C19_MenuFollowsSession ==
    /\ [](pc[1] = "recv" =>
            /\ IF call[1].op \in {"register_user", "login"}
               THEN Anonymous(call[1].pre)
               ELSE ~Anonymous(call[1].pre)
            /\ Offered(choice.choice, choice.session)
            /\ choice.choice # "0")
    /\ [][(shell = "menu" /\ ~Offered(choice'.choice, current_user)) =>
            (shell' = "menu" /\ UNCHANGED <<current_user, pc, call, inflight>>)]_vars
    /\ [][(shell = "menu" /\ choice'.choice = "0") =>
            (shell' = "exited" /\ UNCHANGED <<current_user, pc, call, inflight>>)]_vars

C19_Witness ==
    /\ shell = "menu"
    /\ choice.choice = "13"
    /\ choice.session = PyStr("alice")
    /\ current_user = PyStr("alice")
    /\ last.op = "login"
    /\ inflight = 0

\* C20: an operation that sent its request and got a reply returns a result.
C20_ReplyMeansResult ==
    (last.op # "none" /\ last.reply # "") => last.outcome = "return"

\* the request field in which each identity-requiring operation names its user
IdentityField ==
    [create_post |-> "username", get_feed |-> "username",
     get_unread_messages |-> "username", mark_message_as_read |-> "username",
     follow_user |-> "followerUsername", unfollow_user |-> "followerUsername",
     send_message |-> "senderUsername", get_conversation |-> "username1"]

\* C21: every identity-carrying request names, in its identity field, the
\* session's user at the moment it is sent; and the session's user is always
\* the username of the most recent login that succeeded and was not followed
\* by a logout: a finished exchange sets it exactly when it is a login with a
\* successful reply (to that login's username), a step without an exchange
\* clears it exactly when it is a logout, and nothing else touches it.
C21_RequestsNameSessionUser ==
    /\ [][\A c \in Callers :
            (pc[c] = "idle" /\ pc'[c] = "recv" /\ call'[c].op \in IdentityOps) =>
                /\ ~Anonymous(current_user)
                /\ Field(call'[c].wire, IdentityField[call'[c].op])
                      = JsonValue(current_user)]_vars
    /\ [][\A c \in Callers :
            (pc[c] = "recv" /\ pc'[c] = "idle") =>
                current_user' =
                    IF /\ call[c].op = "login"
                       /\ last'.outcome = "return"
                       /\ last'.reply \in SuccessTexts
                    THEN call[c].args.username
                    ELSE current_user]_vars
    /\ [][pc' = pc =>
            current_user' = IF last'.op = "logout" /\ last' # last
                            THEN PyNone
                            ELSE current_user]_vars

C21_Witness ==
    /\ last.op = "login"
    /\ last.args.username = PyStr("bob")
    /\ last.reply = "{\"success\": false, \"error\": \"denied\"}"
    /\ last.pre = PyStr("alice")
    /\ pc[1] = "recv"
    /\ call[1].op = "get_conversation"
    /\ call[1].args.username = PyStr("bob")
    /\ Field(call[1].wire, "username1") = JsonValue(PyStr("alice"))

(***************************************************************************)
(* Properties of the formatters.                                           *)
(***************************************************************************)
Succeeded(response) == <<"success", PyBool(TRUE)>> \in response.d

\* the elements of the collection the formatter was asked to show
DeclaredItems ==
    IF display.key \in Keys(display.response)
    THEN Get(display.response, display.key, PyNone).items
    ELSE <<>>

NothingFound(line) ==
    line.text \in {"Nenhuma publicacao encontrada.", "Nenhuma mensagem encontrada.",
                   "Nenhum {} encontrado."}

\* the first line of an element's rendering, and where it names the element
ItemLine(line) == line.text \in {"@{} - {}", "{} De: @{} - {}", "{}. @{}"}

NamedIn(line) == IF line.text = "@{} - {}" THEN line.args[1] ELSE line.args[2]

\* C11: for a response with success=true, whatever its count field, an empty
\* collection prints the nothing-found message alone, and a collection of n
\* elements prints exactly n renderings in the collection's order and no
\* nothing-found message.
C11_RendersDeclaredCollection ==
    (display.fn # "none" /\ Succeeded(display.response)) =>
        LET items == DeclaredItems
            shown == SelectSeq(display.out, ItemLine)
        IN  IF Len(items) = 0
            THEN Len(display.out) = 1 /\ NothingFound(display.out[1])
            ELSE /\ Len(shown) = Len(items)
                 /\ \A i \in 1..Len(items) : NamedIn(shown[i]) = PyStr(Names[i])
                 /\ \A i \in 1..Len(display.out) : ~NothingFound(display.out[i])

\* C18: a response whose success is false or absent is rendered as one error
\* line carrying the response's error text, or a default message when the
\* error field is absent; no header and no element is printed.
C18_FailureIsOneErrorLine ==
    (display.fn # "none" /\ ~Succeeded(display.response)) =>
        /\ Len(display.out) = 1
        /\ display.out[1].text = "Erro: {}"
        /\ IF "error" \in Keys(display.response)
           THEN display.out[1].args = <<Get(display.response, "error", PyNone)>>
           ELSE display.out[1].args[1].t = "str"

====
